---------------------------- MODULE Spec2Model ----------------------------
(***************************************************************************)
(* Pipeline orchestration of AI_video_edit: the LangGraph workflow of      *)
(* src/orchestration/graph_builder.py, its nodes (nodes.py) and the merge  *)
(* of agent results into PipelineState (state_schema.py).                  *)
(*                                                                         *)
(* One run of execute_pipeline is modelled.  The graph is walked along the *)
(* edges build_pipeline_graph declares; the two fork branches run          *)
(* concurrently on the shared state (each branch node is entered, merges   *)
(* its result, and stores processing_time in a step of its own) and the    *)
(* join waits for both.                                                    *)
(* Values of slots are abstracted to named shapes ("None", an empty        *)
(* container, a non-empty one); telemetry is a small natural number.       *)
(* The bookkeeping of background tasks by ProcessingService                 *)
(* (api/services/processing_service.py) is a specification of its own.     *)
(***************************************************************************)
EXTENDS Integers, Sequences, FiniteSets, TLC

VARIABLES
    pc,          \* position of the scheduler (next node, or a routing point)
    state,       \* the PipelineState the graph threads through the nodes
    branch,      \* position of each fork branch: "idle", "ready", "running",
                 \* "storing" (processing_time read, not yet stored), "done"
    pending,     \* per branch: the processing_time its += is about to store
    outcome,     \* per stage: "none", "success", "failed" (result) or "raised" (fault)
    invoked,     \* the graph nodes invoked so far, in order of invocation
    route,       \* the last decision of a routing predicate ("" before the first)
    faulted,     \* TRUE once app.invoke raised into execute_pipeline's except clause
    returned,    \* the state execute_pipeline returned (meaningful when pc = "done")
    fork_state,  \* history, kept from fork to join: the state the branches started on
    results,     \* history, kept from fork to join: what each branch's agent call produced
    reported_time, \* history: sum of execution_time over every result an agent returned
    active_jobs, \* ProcessingService.active_jobs: the project ids marked active
    db_status,   \* the status column of the project's row in the database
    task         \* position of each process_video background task of the project

vars == <<pc, state, branch, pending, outcome, invoked, route, faulted, returned,
          fork_state, results, reported_time, active_jobs, db_status, task>>

-----------------------------------------------------------------------------
(* Bounds of the model *)

MaxTime == 2      \* execution_time reported by a stage ranges over 1..MaxTime
MaxCost == 1      \* estimated_cost_usd / total_tokens of a stage range over 0..MaxCost

MaxTasks == 4     \* process_video tasks of one project: the first and MaxTasks - 1 retries

ExecTimes == 1..MaxTime
Costs == 0..MaxCost
Tasks == 1..MaxTasks

-----------------------------------------------------------------------------
(* Names *)

Branches == {"cursor_detector", "audio_agent"}

\* agent_name values passed to update_state_with_agent_result
Stages == {"frame_extractor", "cursor_detector", "audio_agent", "vision_description",
           "analysis_agent", "script_planner", "render"}

\* stages whose node sets status = "error" when the agent raises
CriticalStages == {"frame_extractor", "vision_description", "analysis_agent",
                   "script_planner", "render"}

StatusValues == {"processing", "complete", "error"}

\* Python truthiness of a slot value: None and empty containers are falsy
Truthy(v) == v \notin {"None", "empty"}

-----------------------------------------------------------------------------
(* state_schema.py *)

create_initial_state ==
    [ status             |-> "processing",
      current_stage      |-> "initialized",
      frames             |-> "None",
      cursor_events      |-> "None",
      frame_descriptions |-> "None",
      audio_transcript   |-> "None",
      silence_segments   |-> "None",
      event_timeline     |-> "None",
      narration_script   |-> "None",
      edit_plan          |-> "None",
      final_video_path   |-> "None",
      processing_time    |-> 0,
      errors             |-> << >>,
      warnings           |-> << >>,
      completed_stages   |-> << >>,
      total_tokens_used  |-> 0,
      total_cost_usd     |-> 0 ]

\* an errors entry f"{prefix}: {text}"
ErrorEntry(prefix, text) == <<prefix, text>>

\* the agent-specific part of update_state_with_agent_result (lines 146-204)
AgentOutputs(s, agent_name, result) ==
    CASE agent_name = "frame_extractor" ->
            [s EXCEPT !.frames = result.frames]
      [] agent_name = "cursor_detector" ->
            [s EXCEPT !.cursor_events = result.cursor_events]
      [] agent_name = "vision_description" ->
            [s EXCEPT !.frame_descriptions = result.descriptions,
                      !.total_tokens_used = @ + result.tokens,
                      !.total_cost_usd = @ + result.cost]
      [] agent_name = "audio_agent" ->
            [s EXCEPT !.audio_transcript = result.transcript,
                      !.silence_segments = result.silence_segments,
                      !.total_cost_usd = @ + result.cost]
      [] agent_name = "analysis_agent" ->
            [s EXCEPT !.event_timeline = result.event_timeline,
                      !.total_tokens_used = @ + result.tokens,
                      !.total_cost_usd = @ + result.cost]
      [] agent_name = "script_planner" ->
            [s EXCEPT !.narration_script = result.narration_script,
                      !.edit_plan = result.edit_plan,
                      !.total_tokens_used = @ + result.tokens,
                      !.total_cost_usd = @ + result.cost + result.tts_cost]
      [] agent_name = "render" ->
            [s EXCEPT !.final_video_path = result.video_path,
                      !.status = "complete"]
      [] OTHER -> s

\* a failed branch that also adds the execution_time of the failed result
MergeFailedCountingTime(s, agent_name, result) ==
    [s EXCEPT !.errors = Append(@, ErrorEntry(agent_name, result.error)),
              !.status = "error",
              !.processing_time = @ + result.execution_time]

\* the failed branch of update_state_with_agent_result (lines 137-140)
MergeFailed(s, agent_name, result) ==
    [s EXCEPT !.errors = Append(@, ErrorEntry(agent_name, result.error)),
              !.status = "error"]

update_state_with_agent_result(s, agent_name, result) ==
    IF result.status = "failed"
    THEN MergeFailed(s, agent_name, result)
    ELSE LET marked == [s EXCEPT !.completed_stages = Append(@, agent_name),
                                 !.current_stage = agent_name]
             merged == AgentOutputs(marked, agent_name, result)
         IN  [merged EXCEPT !.processing_time = @ + result.execution_time]


-----------------------------------------------------------------------------
(* What the agents can return.  Every agent wraps its work in try/except    *)
(* and returns {"status": "failed", "error": ..., "execution_time": ...}    *)
(* on an exception; a fault escapes only from its constructor or from the   *)
(* logging call in front of the try, which the node models as "raised".     *)

FailedResults ==
    { [status |-> "failed", error |-> "error", execution_time |-> t] : t \in ExecTimes }

\* FrameExtractorAgent.execute: success carries at least one frame; zero
\* frames raise "No frames extracted" inside its try (a failed result)
FrameExtractorResults ==
    { [status |-> "success", execution_time |-> t, frames |-> "frames"] : t \in ExecTimes }
    \cup FailedResults
    \cup { [status |-> "failed", error |-> "No frames extracted", execution_time |-> t]
             : t \in ExecTimes }

\* CursorDetectorAgent.execute(frames): iterating frames = None raises inside
\* its try; with frames it yields one event per frame
CursorDetectorResults(frames) ==
    IF frames = "None"
    THEN FailedResults
    ELSE { [status |-> "success", execution_time |-> t, cursor_events |-> "events"]
             : t \in ExecTimes }
         \cup FailedResults

\* AudioAgent.execute: the transcript has segments, or none (no audio track,
\* or _transcribe_audio swallowed an exception)
AudioAgentResults ==
    { [status |-> "success", execution_time |-> t, transcript |-> tr,
       silence_segments |-> si, cost |-> c]
         : t \in ExecTimes, tr \in {"segments", "empty_segments"},
           si \in {"silences", "empty"}, c \in Costs }
    \cup FailedResults

\* VisionDescriptionAgent.execute: descriptions holds the frames whose
\* analysis returned something, possibly none
\* (token count and cost of a call are abstracted to one number)
VisionDescriptionResults ==
    { [status |-> "success", execution_time |-> t, descriptions |-> d,
       tokens |-> c, cost |-> c]
         : t \in ExecTimes, d \in {"descriptions", "empty"}, c \in Costs }
    \cup FailedResults

AnalysisAgentResults ==
    { [status |-> "success", execution_time |-> t, event_timeline |-> e,
       tokens |-> c, cost |-> c]
         : t \in ExecTimes, e \in {"events", "empty"}, c \in Costs }
    \cup FailedResults

\* ScriptPlannerAgent.execute: _validate_edit_plan always returns
\* {"timeline": [...], "summary": {...}}; the timeline may be empty
ScriptPlannerResults ==
    { [status |-> "success", execution_time |-> t, narration_script |-> "script",
       edit_plan |-> p, tokens |-> c, cost |-> c, tts_cost |-> c]
         : t \in ExecTimes, p \in {"plan", "plan_empty_timeline"}, c \in Costs }
    \cup FailedResults

RenderResults ==
    { [status |-> "success", execution_time |-> t, video_path |-> "video"]
         : t \in ExecTimes }
    \cup FailedResults

-----------------------------------------------------------------------------
(* nodes.py *)

\* an except clause that sets status and records nothing in errors
CriticalNodeExceptUnrecorded(s, name) ==
    [s EXCEPT !.status = "error"]

\* the except clause of a critical node (frame_extractor, vision_description,
\* analysis_agent, script_planner, render)
CriticalNodeExcept(s, name) ==
    [s EXCEPT !.errors = Append(@, ErrorEntry(name, "exception")),
              !.status = "error"]

\* the except clause of cursor_detector_node / audio_agent_node
NonCriticalNodeExcept(s, name, warning) ==
    [s EXCEPT !.errors = Append(@, ErrorEntry(name, "exception")),
              !.warnings = Append(@, warning)]

frame_extractor_node(s, raised, result) ==
    IF raised THEN CriticalNodeExcept(s, "frame_extractor")
    ELSE update_state_with_agent_result(s, "frame_extractor", result)

cursor_detector_node(s, raised, result) ==
    IF raised
    THEN NonCriticalNodeExcept(s, "cursor_detector",
             "Cursor detection failed, continuing without cursor data")
    ELSE update_state_with_agent_result(s, "cursor_detector", result)

audio_agent_node(s, raised, result) ==
    IF raised
    THEN NonCriticalNodeExcept(s, "audio_agent",
             "Audio processing failed, continuing without audio data")
    ELSE update_state_with_agent_result(s, "audio_agent", result)

vision_description_node(s, raised, result) ==
    IF raised THEN CriticalNodeExcept(s, "vision_description")
    ELSE update_state_with_agent_result(s, "vision_description", result)

analysis_agent_node(s, raised, result) ==
    IF raised THEN CriticalNodeExcept(s, "analysis_agent")
    ELSE update_state_with_agent_result(s, "analysis_agent", result)

script_planner_node(s, raised, result) ==
    IF raised THEN CriticalNodeExcept(s, "script_planner")
    ELSE update_state_with_agent_result(s, "script_planner", result)

render_node(s, raised, result) ==
    IF raised THEN CriticalNodeExcept(s, "render")
    ELSE update_state_with_agent_result(s, "render", result)

parallel_fork_node(s) == [s EXCEPT !.current_stage = "parallel_processing"]

\* parallel_join_node without the substitution of defaults: it only warns
parallel_join_node_only_warns(s) ==
    LET has_cursor == s.cursor_events = "events"
        has_audio  == s.audio_transcript = "segments"
        has_frames == s.frames = "frames"
        no_frames  == [s EXCEPT
                         !.errors = Append(@, ErrorEntry("Frame extraction failed",
                                                         "no frames to analyze")),
                         !.status = "error"]
        s1 == IF has_cursor THEN s
              ELSE [s EXCEPT !.warnings = Append(@, "Cursor detection produced no results")]
        s2 == IF has_audio THEN s1
              ELSE [s1 EXCEPT !.warnings = Append(@, "Audio processing produced no results")]
    IN  IF ~has_frames THEN no_frames
        ELSE [s2 EXCEPT !.current_stage = "parallel_complete"]

parallel_join_node(s) ==
    LET has_cursor == s.cursor_events = "events"
        has_audio  == s.audio_transcript = "segments"
        has_frames == s.frames = "frames"
        no_frames  == [s EXCEPT
                         !.errors = Append(@, ErrorEntry("Frame extraction failed",
                                                         "no frames to analyze")),
                         !.status = "error"]
        s1 == IF has_cursor THEN s
              ELSE [s EXCEPT !.warnings = Append(@, "Cursor detection produced no results"),
                             !.cursor_events = "empty"]
        s2 == IF has_audio THEN s1
              ELSE [s1 EXCEPT !.warnings = Append(@, "Audio processing produced no results"),
                              !.audio_transcript = "default_transcript",
                              !.silence_segments = "empty"]
    IN  IF ~has_frames THEN no_frames
        ELSE [s2 EXCEPT !.current_stage = "parallel_complete"]

\* intake_node and output_node only talk to the database and the log
intake_node(s) == s

\* an output_node that completes a run which is not in error
output_node_completing(s) ==
    IF s.status = "error" THEN s ELSE [s EXCEPT !.status = "complete"]

output_node(s) == s

-----------------------------------------------------------------------------
(* graph_builder.py: the routing predicates in effect (the redefinitions    *)
(* at lines 161-199 replace those of lines 10-60 before the graph is built) *)

should_continue_after_parallel(s) ==
    IF s.status = "error" THEN [route |-> "output", state |-> s]
    ELSE IF ~Truthy(s.frames) THEN [route |-> "output", state |-> s]
    ELSE [route |-> "vision_description", state |-> s]

\* should_continue_after_vision without its check of frame_descriptions
should_continue_after_vision_unchecked(s) ==
    IF s.status = "error" THEN [route |-> "output", state |-> s]
    ELSE [route |-> "analysis_agent", state |-> s]

should_continue_after_vision(s) ==
    IF s.status = "error" THEN [route |-> "output", state |-> s]
    ELSE IF ~Truthy(s.frame_descriptions) THEN [route |-> "output", state |-> s]
    ELSE [route |-> "analysis_agent", state |-> s]

\* should_render without its status check
should_render_ignoring_status(s) ==
    IF ~Truthy(s.edit_plan) THEN [route |-> "output", state |-> s]
    ELSE [route |-> "render", state |-> s]

\* the definition of should_render at lines 46-60, which the one at lines
\* 190-199 replaces: it appends a warning when the edit plan is missing
should_render_shadowed(s) ==
    IF s.status = "error" THEN [route |-> "output", state |-> s]
    ELSE IF ~Truthy(s.edit_plan)
         THEN [route |-> "output",
               state |-> [s EXCEPT !.warnings =
                              Append(@, "Edit plan missing, skipping render")]]
    ELSE [route |-> "render", state |-> s]

should_render(s) ==
    IF s.status = "error" THEN [route |-> "output", state |-> s]
    ELSE IF ~Truthy(s.edit_plan) THEN [route |-> "output", state |-> s]
    ELSE [route |-> "render", state |-> s]

-----------------------------------------------------------------------------
(* execute_pipeline: the run of the compiled graph *)

NoOutcome == [st \in Stages |-> "none"]

\* no process_video task of the project has been scheduled
NoTasks == [t \in Tasks |-> "idle"]

\* the entry of results for a branch whose agent call has not ended
NoResult == [raised |-> FALSE, result |-> [status |-> "none"]]

NoResults == [b \in Branches |-> NoResult]

\* initial_state has been created (lines 220-225); the graph is not built yet
Init ==
    /\ pc = "build_pipeline_graph"
    /\ state = create_initial_state
    /\ branch = [b \in Branches |-> "idle"]
    /\ pending = [b \in Branches |-> 0]
    /\ outcome = NoOutcome
    /\ invoked = << >>
    /\ route = ""
    /\ faulted = FALSE
    /\ returned = create_initial_state
    /\ fork_state = create_initial_state
    /\ results = NoResults
    /\ reported_time = 0
    /\ active_jobs = {}
    /\ db_status = "created"
    /\ task = NoTasks

OutcomeOf(raised, result) ==
    IF raised THEN "raised" ELSE result.status

\* the execution_time an agent call reported (nothing when it raised)
Reported(raised, result) ==
    IF raised THEN 0 ELSE result.execution_time

\* what a branch's agent call produced, as kept in results
ResultOf(raised, result) ==
    [raised |-> raised, result |-> IF raised THEN [status |-> "raised"] ELSE result]

\* app = build_pipeline_graph() (line 228), in front of the try block
BuildPipelineGraph ==
    /\ pc = "build_pipeline_graph"
    /\ pc' = "intake"
    /\ UNCHANGED <<state, branch, pending, outcome, invoked, route, faulted, returned,
                   fork_state, results, reported_time,
                 active_jobs, db_status, task>>

\* build_pipeline_graph raises (StateGraph construction or workflow.compile()
\* rejects the graph): line 228 is outside the try, the exception leaves
\* execute_pipeline
BuildFault ==
    /\ pc = "build_pipeline_graph"
    /\ pc' = "raised"
    /\ UNCHANGED <<state, branch, pending, outcome, invoked, route, faulted, returned,
                   fork_state, results, reported_time,
                 active_jobs, db_status, task>>

\* entry point; edge intake -> frame_extractor
Intake ==
    /\ pc = "intake"
    /\ state' = intake_node(state)
    /\ invoked' = Append(invoked, "intake")
    /\ pc' = "frame_extractor"
    /\ UNCHANGED <<branch, outcome, route, faulted, returned,
                 pending, fork_state, results, reported_time,
                 active_jobs, db_status, task>>

\* edge frame_extractor -> parallel_fork (unconditional)
FrameExtractor ==
    /\ pc = "frame_extractor"
    /\ \E raised \in BOOLEAN, result \in FrameExtractorResults :
          /\ state' = frame_extractor_node(state, raised, result)
          /\ outcome' = [outcome EXCEPT !["frame_extractor"] = OutcomeOf(raised, result)]
          /\ reported_time' = reported_time + Reported(raised, result)
    /\ invoked' = Append(invoked, "frame_extractor")
    /\ pc' = "parallel_fork"
    /\ UNCHANGED <<branch, pending, route, faulted, returned, fork_state, results,
                 active_jobs, db_status, task>>

\* conditional edge parallel_fork -> [cursor_detector, audio_agent]
ParallelFork ==
    /\ pc = "parallel_fork"
    /\ state' = parallel_fork_node(state)
    /\ invoked' = Append(invoked, "parallel_fork")
    /\ fork_state' = parallel_fork_node(state)
    /\ results' = NoResults
    /\ branch' = [b \in Branches |-> "ready"]
    /\ pc' = "branches"
    /\ UNCHANGED <<outcome, route, faulted, returned, pending, reported_time,
                 active_jobs, db_status, task>>

\* a branch node is entered
BranchStart(b) ==
    /\ pc = "branches"
    /\ branch[b] = "ready"
    /\ branch' = [branch EXCEPT ![b] = "running"]
    /\ invoked' = Append(invoked, b)
    /\ UNCHANGED <<pc, state, outcome, route, faulted, returned,
                 pending, fork_state, results, reported_time,
                 active_jobs, db_status, task>>

\* A branch node up to the load of state["processing_time"] in the last
\* statement of update_state_with_agent_result (line 207): everything the
\* node writes except that store.  The two branches mutate the same state,
\* so the other branch may run between this load and the store.  A failed
\* result or a fault returns before line 207 and ends the branch here.
BranchMerge(b, merged, raised, result) ==
    /\ outcome' = [outcome EXCEPT ![b] = OutcomeOf(raised, result)]
    /\ results' = [results EXCEPT ![b] = ResultOf(raised, result)]
    /\ reported_time' = reported_time + Reported(raised, result)
    /\ IF OutcomeOf(raised, result) = "success"
       THEN /\ state' = [merged EXCEPT !.processing_time = state.processing_time]
            /\ pending' = [pending EXCEPT ![b] = state.processing_time + result.execution_time]
            /\ branch' = [branch EXCEPT ![b] = "storing"]
       ELSE /\ state' = merged
            /\ pending' = pending
            /\ branch' = [branch EXCEPT ![b] = "done"]

\* cursor_detector_node; edge cursor_detector -> parallel_join
CursorDetector ==
    /\ pc = "branches"
    /\ branch["cursor_detector"] = "running"
    /\ \E raised \in BOOLEAN, result \in CursorDetectorResults(state.frames) :
          BranchMerge("cursor_detector", cursor_detector_node(state, raised, result),
                      raised, result)
    /\ UNCHANGED <<pc, invoked, route, faulted, returned, fork_state,
                 active_jobs, db_status, task>>

\* audio_agent_node; edge audio_agent -> parallel_join
AudioAgent ==
    /\ pc = "branches"
    /\ branch["audio_agent"] = "running"
    /\ \E raised \in BOOLEAN, result \in AudioAgentResults :
          BranchMerge("audio_agent", audio_agent_node(state, raised, result),
                      raised, result)
    /\ UNCHANGED <<pc, invoked, route, faulted, returned, fork_state,
                 active_jobs, db_status, task>>

\* the store of state["processing_time"] += execution_time (line 207); the
\* branch node then returns
StoreProcessingTime(b) ==
    /\ pc = "branches"
    /\ branch[b] = "storing"
    /\ state' = [state EXCEPT !.processing_time = pending[b]]
    /\ pending' = [pending EXCEPT ![b] = 0]
    /\ branch' = [branch EXCEPT ![b] = "done"]
    /\ UNCHANGED <<pc, outcome, invoked, route, faulted, returned,
                   fork_state, results, reported_time,
                 active_jobs, db_status, task>>

\* a join that runs as soon as one branch has returned
ParallelJoinAfterFirstBranch ==
    /\ pc = "branches"
    /\ \E b \in Branches : branch[b] = "done"
    /\ state' = parallel_join_node(state)
    /\ invoked' = Append(invoked, "parallel_join")
    /\ branch' = [b \in Branches |-> "idle"]
    /\ fork_state' = create_initial_state
    /\ results' = NoResults
    /\ pc' = "after_parallel"
    /\ UNCHANGED <<outcome, route, faulted, returned, pending, reported_time,
                 active_jobs, db_status, task>>

\* parallel_join runs once both branches have returned
ParallelJoin ==
    /\ pc = "branches"
    /\ \A b \in Branches : branch[b] = "done"
    /\ state' = parallel_join_node(state)
    /\ invoked' = Append(invoked, "parallel_join")
    /\ branch' = [b \in Branches |-> "idle"]
    /\ fork_state' = create_initial_state
    /\ results' = NoResults
    /\ pc' = "after_parallel"
    /\ UNCHANGED <<outcome, route, faulted, returned, pending, reported_time,
                 active_jobs, db_status, task>>

\* conditional edge after parallel_join
RouteAfterParallel ==
    /\ pc = "after_parallel"
    /\ LET r == should_continue_after_parallel(state)
       IN  /\ state' = r.state
           /\ route' = r.route
           /\ pc' = r.route
    /\ UNCHANGED <<branch, outcome, invoked, faulted, returned,
                 pending, fork_state, results, reported_time,
                 active_jobs, db_status, task>>

VisionDescription ==
    /\ pc = "vision_description"
    /\ \E raised \in BOOLEAN, result \in VisionDescriptionResults :
          /\ state' = vision_description_node(state, raised, result)
          /\ outcome' = [outcome EXCEPT !["vision_description"] = OutcomeOf(raised, result)]
          /\ reported_time' = reported_time + Reported(raised, result)
    /\ invoked' = Append(invoked, "vision_description")
    /\ pc' = "after_vision"
    /\ UNCHANGED <<branch, pending, route, faulted, returned, fork_state, results,
                 active_jobs, db_status, task>>

\* conditional edge after vision_description
RouteAfterVision ==
    /\ pc = "after_vision"
    /\ LET r == should_continue_after_vision(state)
       IN  /\ state' = r.state
           /\ route' = r.route
           /\ pc' = r.route
    /\ UNCHANGED <<branch, outcome, invoked, faulted, returned,
                 pending, fork_state, results, reported_time,
                 active_jobs, db_status, task>>

\* edge analysis_agent -> script_planner (unconditional)
AnalysisAgent ==
    /\ pc = "analysis_agent"
    /\ \E raised \in BOOLEAN, result \in AnalysisAgentResults :
          /\ state' = analysis_agent_node(state, raised, result)
          /\ outcome' = [outcome EXCEPT !["analysis_agent"] = OutcomeOf(raised, result)]
          /\ reported_time' = reported_time + Reported(raised, result)
    /\ invoked' = Append(invoked, "analysis_agent")
    /\ pc' = "script_planner"
    /\ UNCHANGED <<branch, pending, route, faulted, returned, fork_state, results,
                 active_jobs, db_status, task>>

ScriptPlanner ==
    /\ pc = "script_planner"
    /\ \E raised \in BOOLEAN, result \in ScriptPlannerResults :
          /\ state' = script_planner_node(state, raised, result)
          /\ outcome' = [outcome EXCEPT !["script_planner"] = OutcomeOf(raised, result)]
          /\ reported_time' = reported_time + Reported(raised, result)
    /\ invoked' = Append(invoked, "script_planner")
    /\ pc' = "after_script"
    /\ UNCHANGED <<branch, pending, route, faulted, returned, fork_state, results,
                 active_jobs, db_status, task>>

\* conditional edge after script_planner
RouteAfterScript ==
    /\ pc = "after_script"
    /\ LET r == should_render(state)
       IN  /\ state' = r.state
           /\ route' = r.route
           /\ pc' = r.route
    /\ UNCHANGED <<branch, outcome, invoked, faulted, returned,
                 pending, fork_state, results, reported_time,
                 active_jobs, db_status, task>>

\* edge render -> output
Render ==
    /\ pc = "render"
    /\ \E raised \in BOOLEAN, result \in RenderResults :
          /\ state' = render_node(state, raised, result)
          /\ outcome' = [outcome EXCEPT !["render"] = OutcomeOf(raised, result)]
          /\ reported_time' = reported_time + Reported(raised, result)
    /\ invoked' = Append(invoked, "render")
    /\ pc' = "output"
    /\ UNCHANGED <<branch, pending, route, faulted, returned, fork_state, results,
                 active_jobs, db_status, task>>

\* edge output -> END
Output ==
    /\ pc = "output"
    /\ state' = output_node(state)
    /\ invoked' = Append(invoked, "output")
    /\ pc' = "end"
    /\ UNCHANGED <<branch, outcome, route, faulted, returned,
                 pending, fork_state, results, reported_time,
                 active_jobs, db_status, task>>

\* app.invoke returned: execute_pipeline returns final_state (lines 232-235)
ReturnFinalState ==
    /\ pc = "end"
    /\ returned' = state
    /\ pc' = "done"
    /\ UNCHANGED <<state, branch, outcome, invoked, route, faulted,
                 pending, fork_state, results, reported_time,
                 active_jobs, db_status, task>>

\* The except clause of execute_pipeline (lines 237-241).  app.invoke works
\* on the values of initial_state: the dict the caller holds keeps its own
\* entries, while the three list objects (errors, warnings,
\* completed_stages) are the ones the nodes appended to in place.
ExceptReturn(s) ==
    [create_initial_state EXCEPT
        !.status = "error",
        !.errors = Append(s.errors, ErrorEntry("Pipeline execution error", "exception")),
        !.warnings = s.warnings,
        !.completed_stages = s.completed_stages]

\* app.invoke raises between two node executions
DriverFault ==
    /\ pc \notin {"build_pipeline_graph", "raised", "end", "done"}
    /\ \A b \in Branches : branch[b] \notin {"running", "storing"}
    /\ returned' = ExceptReturn(state)
    /\ faulted' = TRUE
    /\ pc' = "done"
    /\ UNCHANGED <<state, branch, outcome, invoked, route,
                 pending, fork_state, results, reported_time,
                 active_jobs, db_status, task>>

Next ==
    \/ BuildPipelineGraph
    \/ BuildFault
    \/ Intake
    \/ FrameExtractor
    \/ ParallelFork
    \/ \E b \in Branches : BranchStart(b)
    \/ CursorDetector
    \/ AudioAgent
    \/ \E b \in Branches : StoreProcessingTime(b)
    \/ ParallelJoin
    \/ RouteAfterParallel
    \/ VisionDescription
    \/ RouteAfterVision
    \/ AnalysisAgent
    \/ ScriptPlanner
    \/ RouteAfterScript
    \/ Render
    \/ Output
    \/ ReturnFinalState
    \/ DriverFault

Spec == Init /\ [][Next]_vars

\* app.invoke runs the next node whenever one is due, and every stage
\* invocation returns: some step is taken as long as one is possible
FairSpec == Spec /\ WF_vars(Next)

-----------------------------------------------------------------------------
(* The routing predicates as functions of a PipelineState: each is applied  *)
(* to a state drawn from the values the TypedDict admits for the fields it  *)
(* reads (status; Optional frames, frame_descriptions, edit_plan).          *)

PredicateStates ==
    { [create_initial_state EXCEPT !.status = st, !.frames = f,
                                   !.frame_descriptions = d, !.edit_plan = p]
        : st \in StatusValues,
          f \in {"None", "empty", "frames"},
          d \in {"None", "empty", "descriptions"},
          p \in {"None", "empty", "plan_empty_timeline", "plan"} }

PredInit ==
    /\ pc = "predicate"
    /\ state \in PredicateStates
    /\ branch = [b \in Branches |-> "idle"]
    /\ outcome = NoOutcome
    /\ invoked = << >>
    /\ route = ""
    /\ faulted = FALSE
    /\ returned = create_initial_state
    /\ pending = [b \in Branches |-> 0]
    /\ fork_state = create_initial_state
    /\ results = NoResults
    /\ reported_time = 0
    /\ active_jobs = {}
    /\ db_status = "created"
    /\ task = NoTasks

ApplyAfterParallel ==
    /\ pc = "predicate"
    /\ LET r == should_continue_after_parallel(state)
       IN  state' = r.state /\ route' = r.route
    /\ pc' = "should_continue_after_parallel"
    /\ UNCHANGED <<branch, outcome, invoked, faulted, returned,
                 pending, fork_state, results, reported_time,
                 active_jobs, db_status, task>>

ApplyAfterVision ==
    /\ pc = "predicate"
    /\ LET r == should_continue_after_vision(state)
       IN  state' = r.state /\ route' = r.route
    /\ pc' = "should_continue_after_vision"
    /\ UNCHANGED <<branch, outcome, invoked, faulted, returned,
                 pending, fork_state, results, reported_time,
                 active_jobs, db_status, task>>

ApplyShouldRender ==
    /\ pc = "predicate"
    /\ LET r == should_render(state)
       IN  state' = r.state /\ route' = r.route
    /\ pc' = "should_render"
    /\ UNCHANGED <<branch, outcome, invoked, faulted, returned,
                 pending, fork_state, results, reported_time,
                 active_jobs, db_status, task>>

PredNext ==
    \/ ApplyAfterParallel
    \/ ApplyAfterVision
    \/ ApplyShouldRender

PredSpec == PredInit /\ [][PredNext]_vars

-----------------------------------------------------------------------------
(* api/services/processing_service.py and the endpoints of api/main.py that *)
(* start process_video as a background task, for one project.  A task runs  *)
(* on the event loop up to its awaits; execute_pipeline runs in an executor *)
(* thread, so requests are served while a task is inside it.                *)

Project == "p"

\* a process_video task is between its first statement and its finally clause
Running(t) == task[t] \in {"started", "pipeline", "ending"}

\* the project was uploaded and its first process_video task was added
\* (main.py, lines 138-156)
JobInit ==
    /\ pc = "service"
    /\ state = create_initial_state
    /\ branch = [b \in Branches |-> "idle"]
    /\ pending = [b \in Branches |-> 0]
    /\ outcome = NoOutcome
    /\ invoked = << >>
    /\ route = ""
    /\ faulted = FALSE
    /\ returned = create_initial_state
    /\ fork_state = create_initial_state
    /\ results = NoResults
    /\ reported_time = 0
    /\ active_jobs = {}
    /\ db_status = "created"
    /\ task = [NoTasks EXCEPT ![1] = "scheduled"]

\* process_video up to its first await: active_jobs[project_id] = True
TaskStart(t) ==
    /\ task[t] = "scheduled"
    /\ active_jobs' = active_jobs \cup {Project}
    /\ task' = [task EXCEPT ![t] = "started"]
    /\ UNCHANGED <<pc, state, branch, pending, outcome, invoked, route, faulted,
                   returned, fork_state, results, reported_time, db_status>>

\* execute_pipeline is running in the executor: intake_node has set the
\* project's status to processing
TaskIntake(t) ==
    /\ task[t] = "started"
    /\ db_status' = "processing"
    /\ task' = [task EXCEPT ![t] = "pipeline"]
    /\ UNCHANGED <<pc, state, branch, pending, outcome, invoked, route, faulted,
                   returned, fork_state, results, reported_time, active_jobs>>

\* output_node writes the final status of the run to the database;
\* process_video has yet to get the result and send its update
TaskOutput(t) ==
    /\ task[t] = "pipeline"
    /\ \E st \in StatusValues : db_status' = st
    /\ task' = [task EXCEPT ![t] = "ending"]
    /\ UNCHANGED <<pc, state, branch, pending, outcome, invoked, route, faulted,
                   returned, fork_state, results, reported_time, active_jobs>>

\* the project is not found, or execute_pipeline ends without output_node
\* (app.invoke or build_pipeline_graph raised): nothing is written
TaskFault(t) ==
    /\ task[t] \in {"started", "pipeline"}
    /\ task' = [task EXCEPT ![t] = "ending"]
    /\ UNCHANGED <<pc, state, branch, pending, outcome, invoked, route, faulted,
                   returned, fork_state, results, reported_time, active_jobs, db_status>>

\* the finally clause: self.active_jobs.pop(project_id, None)
TaskFinally(t) ==
    /\ task[t] = "ending"
    /\ active_jobs' = active_jobs \ {Project}
    /\ task' = [task EXCEPT ![t] = "done"]
    /\ UNCHANGED <<pc, state, branch, pending, outcome, invoked, route, faulted,
                   returned, fork_state, results, reported_time, db_status>>

\* POST /projects/{id}/retry: accepted when the stored status is error or
\* failed; resets the status and adds a new process_video task
RetryProject ==
    /\ db_status \in {"error", "failed"}
    /\ \E t \in Tasks :
          /\ task[t] = "idle"
          /\ \A u \in Tasks : u < t => task[u] # "idle"
          /\ task' = [task EXCEPT ![t] = "scheduled"]
    /\ db_status' = "processing"
    /\ UNCHANGED <<pc, state, branch, pending, outcome, invoked, route, faulted,
                   returned, fork_state, results, reported_time, active_jobs>>

JobNext ==
    \/ \E t \in Tasks : TaskStart(t)
    \/ \E t \in Tasks : TaskIntake(t)
    \/ \E t \in Tasks : TaskOutput(t)
    \/ \E t \in Tasks : TaskFault(t)
    \/ \E t \in Tasks : TaskFinally(t)
    \/ RetryProject

JobSpec == JobInit /\ [][JobNext]_vars

-----------------------------------------------------------------------------
(* Properties *)

InSeq(x, seq) == \E i \in 1..Len(seq) : seq[i] = x

IsPrefix(a, b) == Len(a) <= Len(b) /\ \A i \in 1..Len(a) : a[i] = b[i]

Failed(st) == outcome[st] \in {"failed", "raised"}

LaterStages == Stages \ {"frame_extractor"}

\* C1: in a run whose frame extraction failed (failed result or raised
\* fault), no later stage name is ever appended to completed_stages.
C1_NoStageCompletesAfterFrameFailure ==
    Failed("frame_extractor") =>
        \A i \in 1..Len(state.completed_stages) :
            state.completed_stages[i] \notin LaterStages

\* C2: once status is error, the only stage invoked afterwards is the
\* finalize step (output): no agent stage is entered while status is error.
C2_ErrorIsTerminal ==
    [][ (state.status = "error" /\ invoked' # invoked)
            => invoked'[Len(invoked')] \notin Stages ]_vars

\* C3: when frame extraction succeeded and cursor detection or audio
\* processing failed (failed result or raised fault), a run the scheduler
\* carried to its end has invoked vision_description.
C3_VisionReachedAfterNonCriticalFailure ==
    ( /\ pc = "done"
      /\ ~faulted
      /\ outcome["frame_extractor"] = "success"
      /\ (Failed("cursor_detector") \/ Failed("audio_agent")) )
        => InSeq("vision_description", invoked)

NonCriticalFailureStep ==
    \E b \in Branches : outcome[b] = "none" /\ outcome'[b] \in {"failed", "raised"}

\* C4: the step in which a non-critical stage (cursor detection, audio
\* processing) fails leaves status at processing and adds a warning.
C4_NonCriticalFailureIsAWarning ==
    [][ (NonCriticalFailureStep /\ state.status = "processing")
            => ( /\ state'.status = "processing"
                 /\ Len(state'.warnings) = Len(state.warnings) + 1 ) ]_vars

ThroughScriptPlanningSucceeded ==
    \A st \in Stages \ {"render"} : outcome[st] = "success"

EmptyEditPlan(p) == p \in {"None", "empty", "plan_empty_timeline"}

\* C5: when every stage through script planning succeeded and the edit plan
\* is empty (unset, or a plan with an empty timeline), render is not
\* invoked, render is not in completed_stages, and the returned status is
\* complete.
C5_EmptyPlanSkipsRenderAndCompletes ==
    ( /\ pc = "done"
      /\ ~faulted
      /\ ThroughScriptPlanningSucceeded
      /\ ~Failed("render")
      /\ EmptyEditPlan(state.edit_plan) )
        => ( /\ ~InSeq("render", invoked)
             /\ ~InSeq("render", returned.completed_stages)
             /\ returned.status = "complete" )

C7_ReturnedStatusIsDefinitive ==
    pc = "done" => returned.status \in {"complete", "error"}

\* C8: status changes only from processing to complete or from processing
\* to error, in the state the graph threads through the nodes and in the
\* dict execute_pipeline hands back.
C8_StatusTransitions ==
    [][ /\ state'.status # state.status
            => ( /\ state.status = "processing"
                 /\ state'.status \in {"complete", "error"} )
        /\ returned'.status # returned.status
            => ( /\ returned.status = "processing"
                 /\ returned'.status \in {"complete", "error"} ) ]_vars

\* status went to error when event analysis failed, and the successful merge
\* of the script planner's result that followed left it at error
C8_Witness ==
    /\ Failed("analysis_agent")
    /\ outcome["script_planner"] = "success"
    /\ state.status = "error"

NamesCriticalStage(e) ==
    e[1] \in CriticalStages \cup {"Frame extraction failed"}

\* C9: a returned state with status error has an errors entry that names a
\* critical stage as the source of the failure.
C9_ErrorNamesCriticalStage ==
    (pc = "done" /\ ~faulted /\ returned.status = "error")
        => \E i \in 1..Len(returned.errors) : NamesCriticalStage(returned.errors[i])

CanonicalOrder ==
    << "intake", "frame_extractor", "cursor_detector", "audio_agent",
       "vision_description", "analysis_agent", "script_planner", "render", "output" >>

\* C10: completed_stages is always a prefix of the canonical stage order.
C10_CompletedStagesIsCanonicalPrefix ==
    IsPrefix(state.completed_stages, CanonicalOrder)

\* the fields of the joined state C11 speaks of
JoinFields(s) ==
    << s.completed_stages, s.processing_time, s.total_cost_usd,
       s.errors, s.warnings, s.status >>

\* the joined state when cursor detection returns before audio processing
\* starts its merge, computed from the state at the fork and the two results
JoinedCursorFirst ==
    LET rc == results["cursor_detector"]
        ra == results["audio_agent"]
        s1 == cursor_detector_node(fork_state, rc.raised, rc.result)
        s2 == audio_agent_node(s1, ra.raised, ra.result)
    IN  parallel_join_node(s2)

\* C11: the state the join leaves (completed_stages order, processing_time,
\* total_cost_usd, errors and warnings order, status) is determined by the
\* state at the fork and the two branch results: it is the one obtained when
\* cursor detection finishes first, whichever branch did finish first
\* (stated for the runs whose frame extraction succeeded).
C11_JoinIndependentOfFinishOrder ==
    [][ ( /\ pc = "branches"
          /\ pc' = "after_parallel"
          /\ outcome["frame_extractor"] = "success" )
            => JoinFields(state') = JoinFields(JoinedCursorFirst) ]_vars

\* the stage that owns each output slot (update_state_with_agent_result)
SlotOwner ==
    [ frames             |-> "frame_extractor",
      cursor_events      |-> "cursor_detector",
      frame_descriptions |-> "vision_description",
      audio_transcript   |-> "audio_agent",
      silence_segments   |-> "audio_agent",
      event_timeline     |-> "analysis_agent",
      narration_script   |-> "script_planner",
      edit_plan          |-> "script_planner",
      final_video_path   |-> "render" ]

OutputSlots == DOMAIN SlotOwner

\* C12: a step that changes an output slot finds the slot unset and is the
\* step in which the stage owning the slot merges its result: a slot is
\* written at most once, and by no other stage or graph node.
C12_SlotsWrittenOnceByOwner ==
    [][ \A slot \in OutputSlots :
            state'[slot] # state[slot]
                => ( /\ state[slot] = "None"
                     /\ outcome[SlotOwner[slot]] = "none"
                     /\ outcome'[SlotOwner[slot]] = "success" ) ]_vars

AfterJoinStages == {"vision_description", "analysis_agent", "script_planner", "render"}

\* C13: once vision_description or a later stage has been invoked,
\* cursor_events, audio_transcript and silence_segments are non-null: each
\* holds its stage's output or the empty default.
C13_BranchSlotsSetBeforeVision ==
    (\E st \in AfterJoinStages : InSeq(st, invoked))
        => ( /\ state.cursor_events \in {"events", "empty"}
             /\ state.audio_transcript \in {"segments", "default_transcript"}
             /\ state.silence_segments \in {"silences", "empty"} )

\* vision_description ran after cursor detection raised and audio processing
\* failed to produce a transcript: the slots hold the defaults
C13_Witness ==
    /\ InSeq("vision_description", invoked)
    /\ outcome["cursor_detector"] = "raised"
    /\ outcome["audio_agent"] = "raised"
    /\ state.cursor_events = "empty"
    /\ state.audio_transcript = "default_transcript"
    /\ state.silence_segments = "empty"

\* C14: execute_pipeline never raises to its caller, and a fault outside a
\* stage call ends in a returned state with status error whose errors end
\* with the entry of that fault.
C14_ExecutePipelineNeverRaises ==
    /\ pc # "raised"
    /\ faulted
         => ( /\ pc = "done"
              /\ returned.status = "error"
              /\ Len(returned.errors) > 0
              /\ returned.errors[Len(returned.errors)][1] = "Pipeline execution error" )

\* frame extraction yielded zero frames: FrameExtractorAgent.execute returned
\* its "No frames extracted" failure and the node merged it
ZeroFramesExtracted ==
    InSeq(ErrorEntry("frame_extractor", "No frames extracted"), state.errors)

\* C15: when frame extraction yields zero frames, the returned status is
\* error, errors has an entry attributed to frame extraction, and
\* completed_stages is exactly <<intake>>.
C15_ZeroFramesEndsAfterIntake ==
    (pc = "done" /\ ~faulted /\ ZeroFramesExtracted)
        => ( /\ returned.status = "error"
             /\ \E i \in 1..Len(returned.errors) : returned.errors[i][1] = "frame_extractor"
             /\ returned.completed_stages = << "intake" >> )

EveryStageSucceeded == \A st \in Stages : outcome[st] = "success"

\* C16: when every stage succeeds and the edit plan is non-empty, the
\* returned status is complete, final_video_path is set, and
\* completed_stages contains both render and the finalize step (output).
C16_FullRunCompletes ==
    (pc = "done" /\ ~faulted /\ EveryStageSucceeded /\ state.edit_plan = "plan")
        => ( /\ returned.status = "complete"
             /\ returned.final_video_path # "None"
             /\ InSeq("render", returned.completed_stages)
             /\ ( \/ InSeq("output", returned.completed_stages)
                  \/ InSeq("finalize", returned.completed_stages) ) )

\* C17: at the end of a run processing_time equals the sum of the
\* execution_time reported by every stage invocation, the two fork branches
\* counted individually, whether the invocation succeeded or failed.
C17_ProcessingTimeIsSumOfReported ==
    (pc = "done" /\ ~faulted) => returned.processing_time = reported_time

\* C18: across every step of a run processing_time, total_tokens_used and
\* total_cost_usd never decrease, and errors, warnings and completed_stages
\* only grow by appending (telemetry is non-negative: ExecTimes, Costs).
C18_AggregatesMonotonic ==
    [][ /\ state'.processing_time >= state.processing_time
        /\ state'.total_tokens_used >= state.total_tokens_used
        /\ state'.total_cost_usd >= state.total_cost_usd
        /\ IsPrefix(state.errors, state'.errors)
        /\ IsPrefix(state.warnings, state'.warnings)
        /\ IsPrefix(state.completed_stages, state'.completed_stages) ]_vars

\* C19: applying a routing predicate in effect leaves every field of the
\* state as it was; the predicate only returns the route.
C19_PredicatesLeaveStateUnchanged ==
    [][ (pc = "predicate" /\ pc' # "predicate") => state' = state ]_vars

\* should_render has routed a state without an edit plan to output, the case
\* in which the replaced definition appended a warning
C19_Witness ==
    /\ pc = "should_render"
    /\ route = "output"
    /\ state.status = "processing"
    /\ state.edit_plan = "None"
    /\ state.warnings = << >>

TimesInvoked(node) == Cardinality({ i \in 1..Len(invoked) : invoked[i] = node })

BranchesReturned ==
    \A b \in Branches : outcome[b] # "none" /\ branch[b] \in {"idle", "done"}

\* C20: the join runs at most once, and exactly once in a run the scheduler
\* carries to its end; when the join or vision_description has been invoked,
\* both cursor detection and audio processing have returned and no fork
\* branch is running.
C20_JoinOnceAfterBothBranches ==
    /\ TimesInvoked("parallel_join") <= 1
    /\ (pc = "done" /\ ~faulted) => TimesInvoked("parallel_join") = 1
    /\ InSeq("parallel_join", invoked) => BranchesReturned
    /\ InSeq("vision_description", invoked)
         => (BranchesReturned /\ InSeq("parallel_join", invoked))

\* the join has run, after audio processing returned first and cursor
\* detection, still running then, returned second
C20_Witness ==
    /\ pc = "after_parallel"
    /\ TimesInvoked("parallel_join") = 1
    /\ outcome["cursor_detector"] = "success"
    /\ outcome["audio_agent"] = "success"
    /\ state.completed_stages = << "frame_extractor", "audio_agent", "cursor_detector" >>

\* the slot values a successful branch result carries
BranchSlotsOf(b, result) ==
    IF b = "cursor_detector"
    THEN << result.cursor_events >>
    ELSE << result.transcript, result.silence_segments >>

BranchSlotsIn(b, s) ==
    IF b = "cursor_detector"
    THEN << s.cursor_events >>
    ELSE << s.audio_transcript, s.silence_segments >>

\* C21: when exactly one fork branch fails (failed result or raised fault)
\* in a run that was in order at the fork, the join leaves the other
\* branch's slots at the values that branch returned and its name in
\* completed_stages, and status is not error.
C21_FailingBranchIsIsolated ==
    [][ \A ok \in Branches : \A bad \in Branches \ {ok} :
          ( /\ pc = "branches"
            /\ pc' = "after_parallel"
            /\ fork_state.status = "processing"
            /\ outcome["frame_extractor"] = "success"
            /\ outcome[ok] = "success"
            /\ Failed(bad) )
              => ( /\ BranchSlotsIn(ok, state') = BranchSlotsOf(ok, results[ok].result)
                   /\ InSeq(ok, state'.completed_stages)
                   /\ state'.status # "error" ) ]_vars

\* C22: when execute_pipeline has returned, whichever path was taken (a
\* fault of the scheduler included), finalize (output) has been executed
\* exactly once and is the last node invoked.
C22_FinalizeOnceAndLast ==
    pc = "done"
        => ( /\ TimesInvoked("output") = 1
             /\ invoked[Len(invoked)] = "output" )

\* C23: the step in which the invocation of a stage raises (its agent
\* constructor or a call in front of the agent's own try) is a step of the
\* stage's node: the fault is appended to errors as an entry of the stage
\* name and the fault, and the node returns the state to the scheduler,
\* which goes on; execute_pipeline does not see the fault.
C23_StageFaultStaysInNode ==
    [][ \A st \in Stages :
          (outcome[st] = "none" /\ outcome'[st] = "raised")
              => ( /\ state'.errors = Append(state.errors, ErrorEntry(st, "exception"))
                   /\ state'.completed_stages = state.completed_stages
                   /\ pc' \notin {"done", "raised"}
                   /\ faulted' = faulted
                   /\ returned' = returned ) ]_vars

\* the vision stage raised; its node recorded the fault and returned
C23_Witness ==
    /\ pc = "after_vision"
    /\ outcome["vision_description"] = "raised"
    /\ state.errors = << ErrorEntry("vision_description", "exception") >>
    /\ ~faulted

\* C24: analysis_agent is invoked only straight after vision_description
\* with status not error and frame_descriptions non-empty; with status error
\* or no descriptions the step after vision_description goes to output.
C24_AnalysisNeedsDescriptions ==
    [][ /\ (invoked' # invoked /\ invoked'[Len(invoked')] = "analysis_agent")
            => ( /\ invoked[Len(invoked)] = "vision_description"
                 /\ state.status # "error"
                 /\ state.frame_descriptions = "descriptions" )
        /\ ( /\ pc = "after_vision"
             /\ pc' # "done"
             /\ (state.status = "error" \/ ~Truthy(state.frame_descriptions)) )
            => pc' = "output" ]_vars

\* analysis_agent was invoked on the descriptions vision_description produced
C24_Witness ==
    /\ invoked # << >>
    /\ invoked[Len(invoked)] = "analysis_agent"
    /\ outcome["vision_description"] = "success"
    /\ state.frame_descriptions = "descriptions"

RenderedBy(s) ==
    /\ outcome["render"] = "success"
    /\ InSeq("render", s.completed_stages)
    /\ s.final_video_path = "video"

\* C25: status is complete, in the state of the graph and in the state
\* execute_pipeline returned, only if render was invoked and succeeded:
\* render is in completed_stages and final_video_path is the path render
\* returned.
C25_CompleteOnlyAfterRender ==
    /\ state.status = "complete" => RenderedBy(state)
    /\ returned.status = "complete" => RenderedBy(returned)

\* a run returned complete after render succeeded
C25_Witness ==
    /\ pc = "done"
    /\ returned.status = "complete"
    /\ outcome["render"] = "success"
    /\ returned.final_video_path = "video"

\* C26: the join keeps what a successful branch returned: after the join
\* audio_transcript and silence_segments are the audio agent's when audio
\* processing succeeded, and cursor_events are the detector's when cursor
\* detection succeeded (stated for the runs in which no stage has failed).
C26_JoinKeepsBranchOutputs ==
    [][ ( /\ pc = "branches"
          /\ pc' = "after_parallel"
          /\ \A st \in Stages : ~Failed(st) )
            => \A b \in Branches :
                  outcome[b] = "success"
                      => BranchSlotsIn(b, state') = BranchSlotsOf(b, results[b].result) ]_vars

\* C27: when both fork branches succeed, after the join completed_stages
\* contains cursor_detector and audio_agent, processing_time has grown since
\* the fork by the sum of the two execution times, and total_cost_usd by the
\* audio cost, under every interleaving of the branches.
C27_NoLostUpdate ==
    [][ ( /\ pc = "branches"
          /\ pc' = "after_parallel"
          /\ \A b \in Branches : outcome[b] = "success" )
            => ( /\ InSeq("cursor_detector", state'.completed_stages)
                 /\ InSeq("audio_agent", state'.completed_stages)
                 /\ state'.processing_time =
                        fork_state.processing_time
                          + results["cursor_detector"].result.execution_time
                          + results["audio_agent"].result.execution_time
                 /\ state'.total_cost_usd =
                        fork_state.total_cost_usd + results["audio_agent"].result.cost ) ]_vars

ErrorTexts == {"error", "No frames extracted"}

\* C28: the step in which a stage's failed result is merged appends one
\* entry prefixed with the stage name to errors, sets status to error, and
\* leaves every other field of the state as it was (completed_stages,
\* current_stage, the output slots, processing_time, total_tokens_used,
\* total_cost_usd).
C28_FailedMergeFrame ==
    [][ \A st \in Stages :
          (outcome[st] = "none" /\ outcome'[st] = "failed")
              => ( /\ \E text \in ErrorTexts :
                        state'.errors = Append(state.errors, ErrorEntry(st, text))
                   /\ state'.status = "error"
                   /\ \A f \in DOMAIN state \ {"errors", "status"} :
                        state'[f] = state[f] ) ]_vars

\* the script planner's failed result was merged after three successful
\* stages had added their time
C28_Witness ==
    /\ pc = "after_script"
    /\ outcome["script_planner"] = "failed"
    /\ state.status = "error"
    /\ state.errors = << ErrorEntry("script_planner", "error") >>
    /\ state.processing_time > 0

IsProcessing == Project \in active_jobs

\* C29: is_processing(p) is true whenever a process_video task for p is
\* running, a retry task started beside an unfinished earlier task included;
\* and when no task for p is running, p is not in active_jobs.
C29_ActiveJobsTracksRunningTasks ==
    /\ (\E t \in Tasks : Running(t)) => IsProcessing
    /\ (\A t \in Tasks : ~Running(t)) => ~IsProcessing

\* the nodes of the graph
Nodes == Stages \cup {"intake", "parallel_fork", "parallel_join", "output"}

NoNodeInvokedTwice == \A n \in Nodes : TimesInvoked(n) <= 1

RunEnded == pc \in {"done", "raised"}

\* C30: given that every stage invocation returns, every run the scheduler
\* starts at intake eventually has executed finalize (output) and
\* execute_pipeline has returned; and no node is invoked more than once.
C30_EveryRunFinalizesAndReturns ==
    /\ [] NoNodeInvokedTwice
    /\ (pc = "intake") ~> (pc = "done" /\ InSeq("output", invoked))

\* the parts of C30 that do not depend on finalize: every run ends, and no
\* node is invoked twice
RunsEndAndInvokeOnce ==
    /\ [] NoNodeInvokedTwice
    /\ <> RunEnded

=============================================================================
